---------------------------- MODULE Spec2Model ----------------------------
(***************************************************************************)
(* Model of top-coder-solution/main.go: a command-line k-nearest-neighbour *)
(* predictor.  main parses three arguments, loads ../public_cases.json and *)
(* prints predictWeightedKNN(tripDays, miles, receipts, trainingData, 5).  *)
(*                                                                         *)
(* Go's float64 is modelled as a binary floating-point format with         *)
(* MantBits significand bits, round-to-nearest-even, gradual underflow,    *)
(* overflow to infinity and NaN: the IEEE-754 rules of float64 at a        *)
(* smaller width.  Every float operation of the source is one rounded      *)
(* operation of the model, in the source's order.  Zero is kept unsigned.  *)
(***************************************************************************)
EXTENDS Integers, Sequences, FiniteSets, TLC

(***************************************************************************)
(* Bounds of the model.                                                    *)
(***************************************************************************)
\* significand width of the modelled float format (float64: 53)
MantBits == 10
\* finite values are below 2^MaxExp (float64: 1024)
MaxExp == 38
\* the smallest positive value is 2^(-MinExp) (float64: 1074)
MinExp == 60

(***************************************************************************)
(* float64 values: [k, s, m, e] is (-1)^s * m * 2^e when k = "fin".        *)
(* Canonical form: 2^(MantBits-1) <= m < 2^MantBits, or e = -MinExp        *)
(* (subnormal and zero); infinities and NaN keep m = 0, e = 0.             *)
(***************************************************************************)
FZero == [k |-> "fin", s |-> 0, m |-> 0, e |-> -MinExp]
FInf(sg) == [k |-> "inf", s |-> sg, m |-> 0, e |-> 0]
FNaN == [k |-> "nan", s |-> 0, m |-> 0, e |-> 0]

IsZero(a) == a.k = "fin" /\ a.m = 0

\* number of bits of n (0 for 0), n < 2^31
BitLen(n) ==
    IF n >= 2^30 THEN 31
    ELSE CHOOSE l \in 0..30 : n < 2^l /\ (l = 0 \/ n >= 2^(l-1))

\* Round to nearest, ties to even: the float nearest to (-1)^sg * (M + f) * 2^E
\* where 0 <= f < 1 and f > 0 exactly when sticky = 1.
Round(sg, M, E, sticky) ==
    IF M = 0 THEN FZero
    ELSE
    LET L == BitLen(M)
        shift == IF L - MantBits >= -MinExp - E THEN L - MantBits ELSE -MinExp - E
    IN  IF shift <= 0
        THEN \* exact: normalise to the left as far as the exponent allows
             LET up == IF MantBits - L <= E + MinExp THEN MantBits - L ELSE E + MinExp
                 e2 == E - up
             IN  IF e2 + MantBits > MaxExp THEN FInf(sg)
                 ELSE [k |-> "fin", s |-> sg, m |-> M * 2^up, e |-> e2]
        ELSE IF shift > L + 1 THEN FZero
        ELSE
        LET q == M \div 2^shift
            r == M % 2^shift
            half == 2^(shift - 1)
            roundUp == \/ r > half
                       \/ r = half /\ (sticky = 1 \/ q % 2 = 1)
            m1 == IF roundUp THEN q + 1 ELSE q
            carry == m1 = 2^MantBits
            m2 == IF carry THEN 2^(MantBits - 1) ELSE m1
            e2 == IF carry THEN E + shift + 1 ELSE E + shift
        IN  IF m2 = 0 THEN FZero
            ELSE IF e2 + MantBits > MaxExp THEN FInf(sg)
            ELSE [k |-> "fin", s |-> sg, m |-> m2, e |-> e2]

\* float64(n) for an int n
FromInt(n) == IF n < 0 THEN Round(1, -n, 0, 0) ELSE Round(0, n, 0, 0)

FNeg(a) == IF a.k = "nan" \/ IsZero(a) THEN a ELSE [a EXCEPT !.s = 1 - a.s]

\* math.Abs
FAbs(a) == IF a.k = "nan" THEN a ELSE [a EXCEPT !.s = 0]

\* a < b
FLt(a, b) ==
    IF a.k = "nan" \/ b.k = "nan" THEN FALSE
    ELSE IF a.k = "inf" THEN a.s = 1 /\ ~(b.k = "inf" /\ b.s = 1)
    ELSE IF b.k = "inf" THEN b.s = 0
    ELSE IF a.s # b.s THEN a.s = 1
    ELSE IF a.s = 0 THEN a.e < b.e \/ (a.e = b.e /\ a.m < b.m)
    ELSE b.e < a.e \/ (a.e = b.e /\ b.m < a.m)

\* a == b
FEq(a, b) == a.k # "nan" /\ b.k # "nan" /\ a = b

FLe(a, b) == FLt(a, b) \/ FEq(a, b)

\* a + b
FAdd(a, b) ==
    IF a.k = "nan" \/ b.k = "nan" THEN FNaN
    ELSE IF a.k = "inf" THEN (IF b.k = "inf" /\ b.s # a.s THEN FNaN ELSE a)
    ELSE IF b.k = "inf" THEN b
    ELSE IF a.m = 0 THEN b
    ELSE IF b.m = 0 THEN a
    ELSE
    LET hi == IF a.e >= b.e THEN a ELSE b
        lo == IF a.e >= b.e THEN b ELSE a
        d == hi.e - lo.e
    IN  IF d > MantBits + 2 THEN hi
        ELSE
        LET vh == (IF hi.s = 1 THEN -1 ELSE 1) * hi.m * 2^d
            vl == (IF lo.s = 1 THEN -1 ELSE 1) * lo.m
            sum == vh + vl
        IN  IF sum < 0 THEN Round(1, -sum, lo.e, 0) ELSE Round(0, sum, lo.e, 0)

\* a - b
FSub(a, b) == FAdd(a, FNeg(b))

\* a * b
FMul(a, b) ==
    IF a.k = "nan" \/ b.k = "nan" THEN FNaN
    ELSE IF a.k = "inf" \/ b.k = "inf"
         THEN (IF IsZero(a) \/ IsZero(b) THEN FNaN ELSE FInf((a.s + b.s) % 2))
    ELSE IF a.m = 0 \/ b.m = 0 THEN FZero
    ELSE Round((a.s + b.s) % 2, a.m * b.m, a.e + b.e, 0)

\* a / b
FDiv(a, b) ==
    IF a.k = "nan" \/ b.k = "nan" THEN FNaN
    ELSE IF a.k = "inf" THEN (IF b.k = "inf" THEN FNaN ELSE FInf((a.s + b.s) % 2))
    ELSE IF b.k = "inf" THEN FZero
    ELSE IF b.m = 0 THEN (IF a.m = 0 THEN FNaN ELSE FInf((a.s + b.s) % 2))
    ELSE IF a.m = 0 THEN FZero
    ELSE
    LET t == 2 * MantBits + 2 - BitLen(a.m)
        n == a.m * 2^t
        q == n \div b.m
        st == IF n % b.m = 0 THEN 0 ELSE 1
    IN  Round((a.s + b.s) % 2, q, a.e - t - b.e, st)

\* floor(sqrt(n)), built from the top bit down
RECURSIVE IsqrtFrom(_, _, _)
IsqrtFrom(n, bit, acc) ==
    IF bit < 0 THEN acc
    ELSE LET c == acc + 2^bit
         IN  IsqrtFrom(n, bit - 1, IF c * c <= n THEN c ELSE acc)

Isqrt(n) == IsqrtFrom(n, 14, 0)

\* math.Sqrt
FSqrt(a) ==
    IF a.k = "nan" THEN FNaN
    ELSE IF IsZero(a) THEN a
    ELSE IF a.s = 1 THEN FNaN
    ELSE IF a.k = "inf" THEN a
    ELSE
    LET t0 == 2 * MantBits + 4 - BitLen(a.m)
        t == IF (a.e - t0) % 2 = 0 THEN t0 ELSE t0 + 1
        n == a.m * 2^t
        r == Isqrt(n)
        st == IF r * r = n THEN 0 ELSE 1
    IN  Round(0, r, (a.e - t) \div 2, st)

\* The float nearest to n/d for integers 0 <= n, 0 < d < 2^30: the value of a
\* decimal literal (compiler constants and strconv.ParseFloat round correctly).
RECURSIVE LongDiv(_, _, _, _)
LongDiv(rem, d, bits, acc) ==
    IF bits = 0 THEN <<acc, rem>>
    ELSE LongDiv((2 * rem) % d, d, bits - 1, 2 * acc + ((2 * rem) \div d))

\* number of leading zero quotient bits of n/d below the binary point (n < d)
RECURSIVE LeadZeros(_, _)
LeadZeros(n, d) == IF 2 * n >= d THEN 0 ELSE 1 + LeadZeros(2 * n, d)

FromRatio(n, d) ==
    IF n = 0 THEN FZero
    ELSE
    LET ip == n \div d
        fr == n % d
    IN  IF fr = 0 THEN Round(0, ip, 0, 0)
        ELSE IF ip > 0
        THEN LET fb == MantBits + 2
                 qr == LongDiv(fr, d, fb, 0)
             IN  IF ip >= 2^(MantBits + 2)
                 THEN Round(0, ip, 0, 1)
                 ELSE Round(0, ip * 2^fb + qr[1], -fb, IF qr[2] = 0 THEN 0 ELSE 1)
        ELSE LET z == LeadZeros(fr, d)
                 z2 == IF z > MinExp THEN MinExp ELSE z
                 fb == MantBits + 2
                 qr == LongDiv(fr, d, z2 + fb, 0)
             IN  Round(0, qr[1], -(z2 + fb), IF qr[2] = 0 THEN 0 ELSE 1)


(***************************************************************************)
(* Program constants.                                                      *)
(***************************************************************************)
\* main.go:29  len(os.Args) != 4: the program name and three arguments
NumArgs == 4
\* main.go:60  predictWeightedKNN(..., trainingData, 5)
K == 5
\* main.go:141-143
dayScale == FromInt(20)
mileScale == FromInt(2000)
receiptScale == FromInt(3000)
\* main.go:86-87  the literal 0.001
Tolerance == FromRatio(1, 1000)
\* main.go:122  the literal 1e-8
epsilon == FromRatio(1, 100000000)

(***************************************************************************)
(* strconv.Atoi and strconv.ParseFloat on strings, which are sequences of  *)
(* one-character strings.  The grammar covers optional sign, digits and a  *)
(* decimal point; exponents, hex floats, "inf" and "nan" are outside the   *)
(* alphabet of the arguments the model draws.                              *)
(***************************************************************************)
Digits == <<"0", "1", "2", "3", "4", "5", "6", "7", "8", "9">>

IsDigit(c) == \E i \in 1..10 : Digits[i] = c

DigitVal(c) == (CHOOSE i \in 1..10 : Digits[i] = c) - 1

RECURSIVE DigitsValue(_, _)
DigitsValue(str, acc) ==
    IF str = <<>> THEN acc
    ELSE DigitsValue(Tail(str), 10 * acc + DigitVal(Head(str)))

StripSign(str) ==
    IF str # <<>> /\ Head(str) \in {"-", "+"} THEN Tail(str) ELSE str

IsNegative(str) == str # <<>> /\ Head(str) = "-"

\* strconv.Atoi: [ok, v]
Atoi(str) ==
    LET body == StripSign(str)
    IN  IF body # <<>> /\ \A i \in 1..Len(body) : IsDigit(body[i])
        THEN [ok |-> TRUE,
              v |-> IF IsNegative(str) THEN -DigitsValue(body, 0)
                    ELSE DigitsValue(body, 0)]
        ELSE [ok |-> FALSE, v |-> 0]

\* strconv.ParseFloat(str, 64): [ok, v], correctly rounded
ParseFloat(str) ==
    LET body == StripSign(str)
        dots == {i \in 1..Len(body) : body[i] = "."}
        digs == SelectSeq(body, IsDigit)
        wellFormed == /\ \A i \in 1..Len(body) : IsDigit(body[i]) \/ body[i] = "."
                      /\ Cardinality(dots) <= 1
                      /\ digs # <<>>
    IN  IF ~wellFormed THEN [ok |-> FALSE, v |-> FZero]
        ELSE
        LET frac == IF dots = {} THEN 0 ELSE Len(body) - (CHOOSE i \in dots : TRUE)
            mag == FromRatio(DigitsValue(digs, 0), 10^frac)
        IN  IF mag.k = "inf" THEN [ok |-> FALSE, v |-> mag]
            ELSE [ok |-> TRUE, v |-> IF IsNegative(str) THEN FNeg(mag) ELSE mag]

\* fmt.Printf("%.2f\n", x): the number of hundredths printed, ties to even
FormatF2(x) ==
    IF x.k # "fin" THEN [k |-> x.k, s |-> x.s, cents |-> 0]
    ELSE IF x.e >= 0 THEN [k |-> "fin", s |-> x.s, cents |-> x.m * 2^x.e * 100]
    ELSE IF -x.e > 30 THEN [k |-> "fin", s |-> x.s, cents |-> 0]
    ELSE LET n == x.m * 100
             q == n \div 2^(-x.e)
             r == n % 2^(-x.e)
             half == 2^(-x.e - 1)
         IN  [k |-> "fin", s |-> x.s,
              cents |-> IF r > half \/ (r = half /\ q % 2 = 1) THEN q + 1 ELSE q]

(***************************************************************************)
(* calculateDistance and the pieces of predictWeightedKNN.                 *)
(***************************************************************************)
\* calculateDistance with the receipts term left unsquared
calculateDistanceUnsquared(days1, miles1, receipts1, days2, miles2, receipts2) ==
    LET daysDiff == FDiv(FromInt(days1 - days2), dayScale)
        milesDiff == FDiv(FSub(miles1, miles2), mileScale)
        receiptsDiff == FDiv(FSub(receipts1, receipts2), receiptScale)
    IN  FSqrt(FAdd(FAdd(FMul(daysDiff, daysDiff), FMul(milesDiff, milesDiff)),
                   receiptsDiff))

calculateDistance(days1, miles1, receipts1, days2, miles2, receipts2) ==
    LET daysDiff == FDiv(FromInt(days1 - days2), dayScale)
        milesDiff == FDiv(FSub(miles1, miles2), mileScale)
        receiptsDiff == FDiv(FSub(receipts1, receipts2), receiptScale)
    IN  FSqrt(FAdd(FAdd(FMul(daysDiff, daysDiff), FMul(milesDiff, milesDiff)),
                   FMul(receiptsDiff, receiptsDiff)))

\* the exact-match condition without its test on miles
IsExactMatchNoMiles(case, td, mi, re) ==
    /\ case.days = td
    /\ FLt(FAbs(FSub(case.receipts, re)), Tolerance)

\* the exact-match condition with <= in place of <
IsExactMatchInclusive(case, td, mi, re) ==
    /\ case.days = td
    /\ FLe(FAbs(FSub(case.miles, mi)), Tolerance)
    /\ FLe(FAbs(FSub(case.receipts, re)), Tolerance)

\* main.go:85-87  the exact-match condition of the first loop
IsExactMatch(case, td, mi, re) ==
    /\ case.days = td
    /\ FLt(FAbs(FSub(case.miles, mi)), Tolerance)
    /\ FLt(FAbs(FSub(case.receipts, re)), Tolerance)

\* main.go:96-104  the Neighbor appended for one training case
NeighborOf(case, td, mi, re) ==
    [Distance |-> calculateDistance(td, mi, re, case.days, case.miles, case.receipts),
     Output |-> case.out]

\* main.go:93-105  the neighbour list before sorting
NeighborsOf(training_, td, mi, re) ==
    [i \in 1..Len(training_) |-> NeighborOf(training_[i], td, mi, re)]

\* the sequence without its i-th element
RemoveAt(seq, i) == SubSeq(seq, 1, i - 1) \o SubSeq(seq, i + 1, Len(seq))

\* indices of the elements no other element is less than
MinIndices(nb) ==
    {i \in 1..Len(nb) : \A j \in 1..Len(nb) : ~FLt(nb[j].Distance, nb[i].Distance)}

\* the neighbour list left as built, the sort forgotten
SortOutcomesUnsorted(nb) == {nb}

\* main.go:108-110  sort.Slice with less = (Distance <): every arrangement in
\* ascending Distance.  sort.Slice is documented as not stable, so elements of
\* equal Distance may come out in any order.
RECURSIVE SortOutcomes(_)
SortOutcomes(nb) ==
    IF nb = <<>> THEN {<<>>}
    ELSE UNION { { <<x>> \o rest :
                     rest \in SortOutcomes(RemoveAt(nb,
                                  CHOOSE i \in MinIndices(nb) : nb[i] = x)) } :
                 x \in {nb[i] : i \in MinIndices(nb)} }

\* k left as passed, the clamp forgotten
ClampKMissing(k_, n) == k_

\* main.go:113-115
ClampK(k_, n) == IF k_ > n THEN n ELSE k_

\* main.go:122-123
Weight(nbr) == FDiv(FromInt(1), FAdd(nbr.Distance, epsilon))

\* the weighted sum returned without the division by the total weight
WeightedAverageUndivided(ws, tw) == ws

\* main.go:134
WeightedAverage(ws, tw) == FDiv(ws, tw)

\* main.go:120-127  the sums after the first cnt neighbours: <<weightedSum, totalWeight>>
RECURSIVE Accumulate(_, _)
Accumulate(nb, cnt) ==
    IF cnt = 0 THEN <<FZero, FZero>>
    ELSE LET prev == Accumulate(nb, cnt - 1)
             w == Weight(nb[cnt])
         IN  <<FAdd(prev[1], FMul(w, nb[cnt].Output)), FAdd(prev[2], w)>>

(***************************************************************************)
(* Inputs.  The arguments and the dataset file are drawn from small sets   *)
(* that hold: duplicate inputs with different outputs (RecA, RecB), a      *)
(* record within the tolerance of them (RecC), one exactly 0.001 away      *)
(* (RecE), a distant record (RecD), queries at distance 0, 0.0005 and      *)
(* exactly 0.001 of a record, a query equidistant from RecA and RecD, and  *)
(* a query so large that every distance overflows.                         *)
(***************************************************************************)
\* datasets of up to MaxN records over RecA, RecB, RecC and RecE
MaxN == 3
\* datasets of up to MaxLong records over RecA and RecD
MaxLong == 6

RecA == [days |-> 1, miles |-> FZero, receipts |-> FZero, out |-> FromInt(100)]
RecB == [days |-> 1, miles |-> FZero, receipts |-> FZero, out |-> FromInt(200)]
RecC == [days |-> 1, miles |-> FromRatio(5, 10000), receipts |-> FZero,
         out |-> FromInt(300)]
RecD == [days |-> 1, miles |-> FromInt(200), receipts |-> FZero, out |-> FromInt(400)]
RecE == [days |-> 1, miles |-> FromRatio(1, 1000), receipts |-> FZero,
         out |-> FromInt(500)]

SeqsOf(S, lo, hi) == UNION {[1..n -> S] : n \in lo..hi}

Datasets ==
    SeqsOf({RecA, RecB, RecC, RecE}, 0, MaxN) \cup SeqsOf({RecA, RecD}, 0, MaxLong)

Files ==
    {[kind |-> "missing", data |-> <<>>], [kind |-> "malformed", data |-> <<>>]}
        \cup {[kind |-> "ok", data |-> d] : d \in Datasets}

\* os.Args: the program name, then the arguments
ProgramName == <<"m", "a", "i", "n">>

ArgVectors ==
    { <<ProgramName>> \o rest : rest \in
        { <<<<"1">>, <<"0">>, <<"0">>>>,
          <<<<"1">>, <<"0", ".", "0", "0", "0", "5">>, <<"0">>>>,
          <<<<"1">>, <<"0", ".", "0", "0", "1">>, <<"0">>>>,
          <<<<"1">>, <<"1", "0", "0">>, <<"0">>>>,
          <<<<"1">>, <<"2", "0", "0", "0", "0", "0", "0", "0", "0", "0">>, <<"0">>>>,
          <<<<"2">>, <<"0">>, <<"0">>>>,
          <<<<"1">>, <<"0">>, <<".", "0", "0", "1">>>>,
          <<<<"1">>, <<"0">>>>,
          <<<<"1">>, <<"0">>, <<"0">>, <<"0">>>>,
          <<<<"1", ".", "5">>, <<"0">>, <<"0">>>>,
          <<<<"1">>, <<"1", ".", "x">>, <<"0">>>>,
          <<<<"1">>, <<"0">>, <<"-">>>> } }

(***************************************************************************)
(* State.                                                                  *)
(***************************************************************************)
VARIABLES
    args,         \* os.Args; Go's os.Args[n] is args[n + 1]
    file,         \* ../public_cases.json
    pc,           \* the statement main is at
    tripDays, miles, receipts,   \* main's parsed arguments
    training,     \* trainingData
    k,            \* predictWeightedKNN's k
    i,            \* the running loop's index
    neighbors, weightedSum, totalWeight,
    ret,          \* the return statement predictWeightedKNN left through
    reimbursement,
    stdout, stderr, exitCode,
    examined,     \* indices the exact-match loop has read from training
    reads,        \* indices the aggregation loop has read from neighbors
    probe         \* the calls of calculateDistance made by SpecDistance

vars == <<args, file, pc, tripDays, miles, receipts, training, k, i, neighbors,
          weightedSum, totalWeight, ret, reimbursement, stdout, stderr,
          exitCode, examined, reads, probe>>

NoProbe == [a |-> <<0, FZero, FZero>>, b |-> <<0, FZero, FZero>>,
            ab |-> FZero, ba |-> FZero, done |-> FALSE]

Fresh ==
    /\ pc = "main"
    /\ tripDays = 0 /\ miles = FZero /\ receipts = FZero
    /\ training = <<>> /\ k = 0 /\ i = 0
    /\ neighbors = <<>> /\ weightedSum = FZero /\ totalWeight = FZero
    /\ ret = "none" /\ reimbursement = FZero
    /\ stdout = <<>> /\ stderr = <<>> /\ exitCode = -1
    /\ examined = <<>> /\ reads = <<>>

Init ==
    /\ args \in ArgVectors
    /\ file \in Files
    /\ probe = NoProbe
    /\ Fresh

\* os.Exit(1) after a message on standard error
Fail(msg) ==
    /\ pc' = "exited"
    /\ exitCode' = 1
    /\ stderr' = Append(stderr, msg)

\* a run-time panic: the Go runtime prints the panic and exits with status 2
Panic(msg) ==
    /\ pc' = "exited"
    /\ exitCode' = 2
    /\ stderr' = Append(stderr, msg)
    /\ ret' = "panic"

(***************************************************************************)
(* main                                                                    *)
(***************************************************************************)
\* main.go:29-32
CheckArgs ==
    /\ pc = "main"
    /\ \/ /\ Len(args) # NumArgs
          /\ Fail("usage")
       \/ /\ Len(args) = NumArgs
          /\ pc' = "atoi"
          /\ UNCHANGED <<exitCode, stderr>>
    /\ UNCHANGED <<args, file, tripDays, miles, receipts, training, k, i,
                   neighbors, weightedSum, totalWeight, ret, reimbursement,
                   stdout, examined, reads, probe>>

\* main.go:34-38
ParseDays ==
    /\ pc = "atoi"
    /\ LET r == Atoi(args[2])
       IN  \/ /\ ~r.ok
              /\ Fail("trip_duration_days")
              /\ UNCHANGED tripDays
           \/ /\ r.ok
              /\ tripDays' = r.v
              /\ pc' = "parseMiles"
              /\ UNCHANGED <<exitCode, stderr>>
    /\ UNCHANGED <<args, file, miles, receipts, training, k, i, neighbors,
                   weightedSum, totalWeight, ret, reimbursement, stdout,
                   examined, reads, probe>>

\* main.go:40-44
ParseMiles ==
    /\ pc = "parseMiles"
    /\ LET r == ParseFloat(args[3])
       IN  \/ /\ ~r.ok
              /\ Fail("miles_traveled")
              /\ UNCHANGED miles
           \/ /\ r.ok
              /\ miles' = r.v
              /\ pc' = "parseReceipts"
              /\ UNCHANGED <<exitCode, stderr>>
    /\ UNCHANGED <<args, file, tripDays, receipts, training, k, i, neighbors,
                   weightedSum, totalWeight, ret, reimbursement, stdout,
                   examined, reads, probe>>

\* main.go:46-50
ParseReceipts ==
    /\ pc = "parseReceipts"
    /\ LET r == ParseFloat(args[4])
       IN  \/ /\ ~r.ok
              /\ Fail("total_receipts_amount")
              /\ UNCHANGED receipts
           \/ /\ r.ok
              /\ receipts' = r.v
              /\ pc' = "load"
              /\ UNCHANGED <<exitCode, stderr>>
    /\ UNCHANGED <<args, file, tripDays, miles, training, k, i, neighbors,
                   weightedSum, totalWeight, ret, reimbursement, stdout,
                   examined, reads, probe>>

\* the load with its error ignored: main goes on with the data it got
LoadTrainingDataIgnoringError ==
    /\ pc = "load"
    /\ training' = file.data
    /\ k' = K
    /\ i' = 0
    /\ pc' = "scan"
    /\ UNCHANGED <<args, file, tripDays, miles, receipts, neighbors,
                   weightedSum, totalWeight, ret, reimbursement, stdout,
                   stderr, exitCode, examined, reads, probe>>

\* main.go:53-57 and loadTrainingData, main.go:64-80: os.Open fails on a
\* missing file, Decode fails on a malformed one, otherwise the decoded data
LoadTrainingData ==
    /\ pc = "load"
    /\ \/ /\ file.kind # "ok"
          /\ Fail("loading training data")
          /\ UNCHANGED <<training, k, i>>
       \/ /\ file.kind = "ok"
          /\ training' = file.data
          \* main.go:60  the call predictWeightedKNN(tripDays, miles, receipts, trainingData, 5)
          /\ k' = K
          /\ i' = 0
          /\ pc' = "scan"
          /\ UNCHANGED <<exitCode, stderr>>
    /\ UNCHANGED <<args, file, tripDays, miles, receipts, neighbors,
                   weightedSum, totalWeight, ret, reimbursement, stdout,
                   examined, reads, probe>>

(***************************************************************************)
(* predictWeightedKNN, statement by statement.  Go indices start at 0,     *)
(* sequences at 1: Go's training[i] is training[i + 1] here.               *)
(***************************************************************************)
\* the exact-match loop without its early return: the last match wins
ExactScanLastWins ==
    /\ pc = "scan"
    /\ \/ /\ i < Len(training)
          /\ IsExactMatch(training[i + 1], tripDays, miles, receipts)
          /\ examined' = Append(examined, i)
          /\ reimbursement' = training[i + 1].out
          /\ ret' = "exact"
          /\ i' = i + 1
          /\ UNCHANGED pc
       \/ /\ i < Len(training)
          /\ ~IsExactMatch(training[i + 1], tripDays, miles, receipts)
          /\ examined' = Append(examined, i)
          /\ i' = i + 1
          /\ UNCHANGED <<reimbursement, ret, pc>>
       \/ /\ i >= Len(training)
          /\ i' = 0
          /\ pc' = IF ret = "exact" THEN "print" ELSE "dist"
          /\ UNCHANGED <<reimbursement, ret, examined>>
    /\ UNCHANGED <<args, file, tripDays, miles, receipts, training, k,
                   neighbors, weightedSum, totalWeight, stdout, stderr,
                   exitCode, reads, probe>>

\* main.go:84-90  one iteration of the exact-match loop, or its end
ExactScan ==
    /\ pc = "scan"
    /\ \/ /\ i < Len(training)
          /\ IsExactMatch(training[i + 1], tripDays, miles, receipts)
          /\ examined' = Append(examined, i)
          /\ reimbursement' = training[i + 1].out
          /\ ret' = "exact"
          /\ pc' = "print"
          /\ UNCHANGED i
       \/ /\ i < Len(training)
          /\ ~IsExactMatch(training[i + 1], tripDays, miles, receipts)
          /\ examined' = Append(examined, i)
          /\ i' = i + 1
          /\ UNCHANGED <<reimbursement, ret, pc>>
       \/ /\ i >= Len(training)
          /\ i' = 0
          /\ pc' = "dist"
          /\ UNCHANGED <<reimbursement, ret, examined>>
    /\ UNCHANGED <<args, file, tripDays, miles, receipts, training, k,
                   neighbors, weightedSum, totalWeight, stdout, stderr,
                   exitCode, reads, probe>>

\* main.go:93-105  one iteration of the distance loop, or its end
ComputeDistances ==
    /\ pc = "dist"
    /\ \/ /\ i < Len(training)
          /\ neighbors' = Append(neighbors,
                                 NeighborOf(training[i + 1], tripDays, miles, receipts))
          /\ i' = i + 1
          /\ UNCHANGED pc
       \/ /\ i >= Len(training)
          /\ pc' = "sort"
          /\ UNCHANGED <<neighbors, i>>
    /\ UNCHANGED <<args, file, tripDays, miles, receipts, training, k,
                   weightedSum, totalWeight, ret, reimbursement, stdout,
                   stderr, exitCode, examined, reads, probe>>

\* main.go:108-110
SortNeighbors ==
    /\ pc = "sort"
    /\ neighbors' \in SortOutcomes(neighbors)
    /\ pc' = "clamp"
    /\ UNCHANGED <<args, file, tripDays, miles, receipts, training, k, i,
                   weightedSum, totalWeight, ret, reimbursement, stdout,
                   stderr, exitCode, examined, reads, probe>>

\* main.go:113-118
ClampNeighbors ==
    /\ pc = "clamp"
    /\ k' = ClampK(k, Len(neighbors))
    /\ weightedSum' = FZero
    /\ totalWeight' = FZero
    /\ i' = 0
    /\ pc' = "agg"
    /\ UNCHANGED <<args, file, tripDays, miles, receipts, training, neighbors,
                   ret, reimbursement, stdout, stderr, exitCode, examined,
                   reads, probe>>

\* main.go:120-127  one iteration of the aggregation loop, or its end; an
\* index outside neighbors is a run-time panic
Aggregate ==
    /\ pc = "agg"
    /\ \/ /\ i < k
          /\ reads' = Append(reads, i)
          /\ IF i < Len(neighbors)
             THEN LET weight == Weight(neighbors[i + 1])
                  IN  /\ weightedSum' = FAdd(weightedSum,
                                             FMul(weight, neighbors[i + 1].Output))
                      /\ totalWeight' = FAdd(totalWeight, weight)
                      /\ i' = i + 1
                      /\ UNCHANGED <<pc, exitCode, stderr, ret>>
             ELSE /\ Panic("index out of range")
                  /\ UNCHANGED <<weightedSum, totalWeight, i>>
       \/ /\ i >= k
          /\ pc' = "result"
          /\ UNCHANGED <<weightedSum, totalWeight, i, reads, exitCode, stderr, ret>>
    /\ UNCHANGED <<args, file, tripDays, miles, receipts, training, k,
                   neighbors, reimbursement, stdout, examined, probe>>

\* the result without the zero-weight fallback: always the quotient
ResultWithoutFallback ==
    /\ pc = "result"
    /\ reimbursement' = WeightedAverage(weightedSum, totalWeight)
    /\ ret' = "weighted"
    /\ pc' = "print"
    /\ UNCHANGED <<args, file, tripDays, miles, receipts, training, k, i,
                   neighbors, weightedSum, totalWeight, stdout, stderr,
                   exitCode, examined, reads, probe>>

\* main.go:129-134
Result ==
    /\ pc = "result"
    /\ \/ /\ FEq(totalWeight, FZero)
          /\ Len(neighbors) = 0
          /\ Panic("index out of range")
          /\ UNCHANGED reimbursement
       \/ /\ FEq(totalWeight, FZero)
          /\ Len(neighbors) > 0
          /\ reimbursement' = neighbors[1].Output
          /\ ret' = "fallback"
          /\ pc' = "print"
          /\ UNCHANGED <<exitCode, stderr>>
       \/ /\ ~FEq(totalWeight, FZero)
          /\ reimbursement' = WeightedAverage(weightedSum, totalWeight)
          /\ ret' = "weighted"
          /\ pc' = "print"
          /\ UNCHANGED <<exitCode, stderr>>
    /\ UNCHANGED <<args, file, tripDays, miles, receipts, training, k, i,
                   neighbors, weightedSum, totalWeight, stdout, examined,
                   reads, probe>>

\* main.go:61-62
PrintResult ==
    /\ pc = "print"
    /\ stdout' = Append(stdout, FormatF2(reimbursement))
    /\ pc' = "exited"
    /\ exitCode' = 0
    /\ UNCHANGED <<args, file, tripDays, miles, receipts, training, k, i,
                   neighbors, weightedSum, totalWeight, ret, reimbursement,
                   stderr, examined, reads, probe>>

Next ==
    \/ CheckArgs
    \/ ParseDays
    \/ ParseMiles
    \/ ParseReceipts
    \/ LoadTrainingData
    \/ ExactScan
    \/ ComputeDistances
    \/ SortNeighbors
    \/ ClampNeighbors
    \/ Aggregate
    \/ Result
    \/ PrintResult

Spec == Init /\ [][Next]_vars

(***************************************************************************)
(* predictWeightedKNN as a whole: the set of ways a call can end, one per  *)
(* outcome of sort.Slice.  [ret, v]: the return statement and the value.   *)
(***************************************************************************)
ExactMatches(training_, td, mi, re) ==
    {j \in 1..Len(training_) : IsExactMatch(training_[j], td, mi, re)}

\* main.go:112-134 for a sorted neighbour list
AggregateSorted(nb, k_) ==
    LET acc == Accumulate(nb, ClampK(k_, Len(nb)))
    IN  IF FEq(acc[2], FZero)
        THEN IF nb = <<>> THEN [ret |-> "panic", v |-> FZero]
             ELSE [ret |-> "fallback", v |-> nb[1].Output]
        ELSE [ret |-> "weighted", v |-> WeightedAverage(acc[1], acc[2])]

predictWeightedKNN(td, mi, re, training_, k_) ==
    LET hits == ExactMatches(training_, td, mi, re)
    IN  IF hits # {}
        THEN {[ret |-> "exact",
               v |-> training_[CHOOSE j \in hits : \A h \in hits : j <= h].out]}
        ELSE {AggregateSorted(nb, k_) :
                 nb \in SortOutcomes(NeighborsOf(training_, td, mi, re))}

(***************************************************************************)
(* calculateDistance on its own: two triples, the call both ways round.    *)
(***************************************************************************)
Triples ==
    {<<d, m, r>> : d \in {0, 1, 3},
                   m \in {FZero, FromRatio(5, 10000), FromInt(100), FromInt(2000000000)},
                   r \in {FZero, FromRatio(1, 1000), FromInt(3000)}}

InitDistance ==
    /\ probe \in {[a |-> ta, b |-> tb, ab |-> FZero, ba |-> FZero, done |-> FALSE] :
                     ta \in Triples, tb \in Triples}
    /\ args = <<>>
    /\ file = [kind |-> "missing", data |-> <<>>]
    /\ Fresh

CallDistance ==
    /\ ~probe.done
    /\ probe' = [probe EXCEPT
                   !.ab = calculateDistance(probe.a[1], probe.a[2], probe.a[3],
                                            probe.b[1], probe.b[2], probe.b[3]),
                   !.ba = calculateDistance(probe.b[1], probe.b[2], probe.b[3],
                                            probe.a[1], probe.a[2], probe.a[3]),
                   !.done = TRUE]
    /\ UNCHANGED <<args, file, pc, tripDays, miles, receipts, training, k, i,
                   neighbors, weightedSum, totalWeight, ret, reimbursement,
                   stdout, stderr, exitCode, examined, reads>>

SpecDistance == InitDistance /\ [][CallDistance]_vars

(***************************************************************************)
(* Vocabulary of the properties.                                           *)
(***************************************************************************)
\* predictWeightedKNN has returned a value
Returned == ret \in {"exact", "fallback", "weighted"}

\* |x - y| < 0.001 and |x - y| <= 0.001
Within(x, y) == FLt(FAbs(FSub(x, y)), Tolerance)
WithinOrAt(x, y) == FLe(FAbs(FSub(x, y)), Tolerance)

\* positions of the records whose inputs are exactly the query
SameInput ==
    {j \in 1..Len(training) : /\ training[j].days = tripDays
                              /\ training[j].miles = miles
                              /\ training[j].receipts = receipts}

\* positions of the records within the tolerance of the query, boundary excluded
Matching ==
    {j \in 1..Len(training) : /\ training[j].days = tripDays
                              /\ Within(training[j].miles, miles)
                              /\ Within(training[j].receipts, receipts)}

\* ... boundary included
MatchingOrAt ==
    {j \in 1..Len(training) : /\ training[j].days = tripDays
                              /\ WithinOrAt(training[j].miles, miles)
                              /\ WithinOrAt(training[j].receipts, receipts)}

Least(S) == CHOOSE j \in S : \A h \in S : j <= h

\* the outputs of the neighbours the aggregation selected
SelectedOutputs == {neighbors[j].Output : j \in 1..k}

MinOutput == CHOOSE x \in SelectedOutputs : \A y \in SelectedOutputs : FLe(x, y)
MaxOutput == CHOOSE x \in SelectedOutputs : \A y \in SelectedOutputs : FLe(y, x)
MaxMagnitude ==
    CHOOSE x \in {FAbs(y) : y \in SelectedOutputs} :
        \A y \in SelectedOutputs : FLe(FAbs(y), x)

\* sixteen units of round-off: 2^(4 - MantBits), 2^-49 for float64
RoundingSlack == Round(0, 1, 4 - MantBits, 0)

Count(seq, x) == Cardinality({j \in 1..Len(seq) : seq[j] = x})

IsPermutationOf(s1, s2) ==
    /\ Len(s1) = Len(s2)
    /\ \A j \in 1..Len(s1) : Count(s1, s1[j]) = Count(s2, s1[j])

\* the neighbour list as the distance loop builds it
Unsorted == NeighborsOf(training, tripDays, miles, receipts)

\* the stable ascending order: of the nearest, the earliest first
RECURSIVE StableOrder(_)
StableOrder(nb) ==
    IF nb = <<>> THEN <<>>
    ELSE LET j == Least(MinIndices(nb))
         IN  <<nb[j]>> \o StableOrder(RemoveAt(nb, j))

\* the training set with the records at x and y exchanged
Swap(seq, x, y) ==
    [j \in 1..Len(seq) |-> IF j = x THEN seq[y] ELSE IF j = y THEN seq[x] ELSE seq[j]]

Transpositions(seq) ==
    {seq} \cup {Swap(seq, x, y) : x \in 1..Len(seq), y \in 1..Len(seq)}

\* all the values a call on training set p can return (or "panic")
ValuesOn(p) ==
    {[ret |-> IF o.ret = "panic" THEN "panic" ELSE "value", v |-> o.v] :
        o \in predictWeightedKNN(tripDays, miles, receipts, p, K)}

\* records that compete (match the query, or lie at equal distance when none
\* matches) carry equal outputs
TiesAgree ==
    IF Matching # {}
    THEN \A x \in Matching, y \in Matching : training[x].out = training[y].out
    ELSE \A x \in 1..Len(training), y \in 1..Len(training) :
            Unsorted[x].Distance = Unsorted[y].Distance
                => Unsorted[x].Output = Unsorted[y].Output

\* the arguments and the dataset are all valid
InputsValid ==
    /\ Len(args) = NumArgs
    /\ Atoi(args[2]).ok
    /\ ParseFloat(args[3]).ok
    /\ ParseFloat(args[4]).ok
    /\ file.kind = "ok"

InPredict == pc \in {"scan", "dist", "sort", "clamp", "agg", "result"} \/ ret # "none"

(***************************************************************************)
(* C1  Exact-match property.                                               *)
(***************************************************************************)
\* C1 as stated: whenever the query is exactly the input triple of a record
\* R of the training set, the call returns through the exact-match return
\* with exactly R's expected_output, also when other records share or come
\* within the tolerance of R's inputs.
C1_ExactMatchReturnsOwnOutput ==
    Returned =>
        \A j \in SameInput : ret = "exact" /\ reimbursement = training[j].out

\* C1 amended: a query that is exactly a record R's input triple returns
\* through the exact-match return with the expected_output of the first
\* record, in training-set order, within the tolerance of the query; that is
\* R's own output when no earlier record is within the tolerance of R.
C1_ExactMatchReturnsFirstWithin ==
    Returned =>
        \A j \in SameInput :
            /\ ret = "exact"
            /\ reimbursement = training[Least(Matching)].out
            /\ (\A g \in Matching : g >= j) => reimbursement = training[j].out

\* C1 witness: the query is the triple of a record that comes after a record
\* within tolerance with a different output, and the call has returned.
C1_Witness ==
    /\ Returned
    /\ \E j \in SameInput : \E g \in Matching :
          g < j /\ training[g].out # training[j].out

(***************************************************************************)
(* C2  Tolerance property.                                                 *)
(***************************************************************************)
\* C2 as stated: when some record has the query's trip days and miles and
\* receipts each at an absolute difference of at most 0.001 (exactly 0.001
\* included), the call returns a record's output through the exact-match
\* return, never the weighted blend.
C2_ToleranceInclusive ==
    Returned =>
        (MatchingOrAt # {} =>
            /\ ret = "exact"
            /\ \E j \in 1..Len(training) : reimbursement = training[j].out)

\* C2 amended: the tolerance is strict.  When some record has the query's
\* trip days and miles and receipts each at a difference below 0.001, the call
\* returns the output of such a record through the exact-match return; when
\* no record does, a difference of exactly 0.001 included, the exact-match
\* return is not taken.
C2_ToleranceStrict ==
    Returned =>
        /\ Matching # {} =>
              /\ ret = "exact"
              /\ \E j \in Matching : reimbursement = training[j].out
        /\ Matching = {} => ret # "exact"

\* C2 witness: an exact-match return for a query that differs from every
\* record, so the match is by tolerance alone.
C2_Witness ==
    /\ ret = "exact"
    /\ SameInput = {}
    /\ Matching # {}

(***************************************************************************)
(* C3  Boundedness of aggregation.                                         *)
(***************************************************************************)
\* C3 as stated: without an exact match, the returned value lies in the closed
\* interval [min, max] of the outputs of the min(k, n) selected neighbours.
C3_WithinSelectedRange ==
    ret \in {"weighted", "fallback"} =>
        /\ FLe(MinOutput, reimbursement)
        /\ FLe(reimbursement, MaxOutput)

\* C3 amended: without an exact match, the returned value lies in [min, max]
\* of the selected outputs up to the rounding of the floating-point sums:
\* min - d*M <= value <= max + d*M, with M the largest magnitude of a
\* selected output and d sixteen units of round-off (2^-49 in float64).
C3_WithinSelectedRangeRounded ==
    ret \in {"weighted", "fallback"} =>
        LET slack == FMul(RoundingSlack, MaxMagnitude)
        IN  /\ FLe(FSub(MinOutput, slack), reimbursement)
            /\ FLe(reimbursement, FAdd(MaxOutput, slack))

\* C3 witness: a weighted result over k = 5 selected neighbours of different
\* outputs, chosen among more than 5 records.
C3_Witness ==
    /\ ret = "weighted"
    /\ k = K
    /\ Len(training) > K
    /\ MinOutput # MaxOutput

(***************************************************************************)
(* C4  k-saturation.                                                       *)
(***************************************************************************)
\* C4: with 1 <= n < 5 records and no exact match, the aggregation loop reads
\* the indices 0 .. n-1 of the neighbour list, each once and none outside it,
\* and the neighbours are the n records, each once.
C4_AllRecordsUsedInBounds ==
    /\ \A j \in 1..Len(reads) : reads[j] >= 0 /\ reads[j] < Len(neighbors)
    /\ (Len(training) \in 1..(K - 1) /\ (pc = "result" \/ ret \in {"fallback", "weighted", "panic"}))
          => /\ reads = [j \in 1..Len(training) |-> j - 1]
             /\ IsPermutationOf(neighbors, Unsorted)
             /\ ret # "panic"

\* C4 witness: the aggregation loop has ended on a training set of 2 to 4 records.
C4_Witness ==
    /\ pc = "result"
    /\ Len(training) \in 2..(K - 1)
    /\ Len(reads) = Len(training)

(***************************************************************************)
(* C5  Order irrelevance.                                                  *)
(***************************************************************************)
\* C5 as stated: the value the call has just returned is the value it returns
\* for every permutation of the training set.  Exchanging two records is a
\* permutation, and the exchanges generate all of them.
C5_SameForEveryOrder ==
    (Returned /\ pc = "print") =>
        \A p \in Transpositions(training) :
            ValuesOn(p) = {[ret |-> "value", v |-> reimbursement]}

\* C5 amended: the value the call has just returned is the value it returns
\* for every permutation of the training set provided the records that
\* compete carry equal outputs: all records within the tolerance of the
\* query, or, when there is none, any two
\* records at equal distance from the query.  (The datasets of the model are
\* closed under permutation and the proviso does not depend on the order, so
\* invariance under every exchange of two records is invariance under every
\* permutation.)
C5_SameForEveryOrderWhenTiesAgree ==
    (Returned /\ pc = "print" /\ TiesAgree) =>
        \A p \in Transpositions(training) :
            ValuesOn(p) = {[ret |-> "value", v |-> reimbursement]}

\* C5 witness: a weighted result on more than 5 records of different outputs
\* whose ties agree.
C5_Witness ==
    /\ ret = "weighted"
    /\ TiesAgree
    /\ Len(training) > K
    /\ \E x \in 1..Len(training), y \in 1..Len(training) :
          training[x].out # training[y].out

(***************************************************************************)
(* C6  Symmetry of distance.                                               *)
(***************************************************************************)
\* C6: calculateDistance(a, b) equals calculateDistance(b, a) for all triples.
C6_DistanceSymmetric == probe.done => probe.ab = probe.ba

\* C6 witness: both calls made on two different triples at a finite,
\* non-zero distance.
C6_Witness ==
    /\ probe.done
    /\ probe.a # probe.b
    /\ probe.ab.k = "fin"
    /\ ~IsZero(probe.ab)

(***************************************************************************)
(* C7  Error exit.                                                         *)
(***************************************************************************)
\* C7: a result is on standard output only after three arguments were given,
\* all three parsed and the dataset loaded; when one of these fails the
\* process exits with status 1, predictWeightedKNN is never entered and
\* nothing is written to standard output.
C7_ErrorExit ==
    /\ stdout # <<>> => InputsValid /\ Returned
    /\ ~InputsValid =>
          /\ ~InPredict
          /\ stdout = <<>>
          /\ pc = "exited" => exitCode = 1
          /\ pc \in {"main", "atoi", "parseMiles", "parseReceipts", "load", "exited"}

\* C7 witness: three well-formed arguments, a dataset that fails to load, and
\* the process has exited.
C7_Witness ==
    /\ pc = "exited"
    /\ Len(args) = NumArgs
    /\ Atoi(args[2]).ok /\ ParseFloat(args[3]).ok /\ ParseFloat(args[4]).ok
    /\ file.kind # "ok"
    /\ exitCode = 1

(***************************************************************************)
(* C8  Ranking with stable ties.                                           *)
(***************************************************************************)
\* C8: after sorting, the neighbours are in ascending order of distance and
\* neighbours of equal distance keep the order of their records in the
\* training set, so the first k are the earliest of the nearest.
C8_StableRanking ==
    pc \in {"clamp", "agg", "result"} => neighbors = StableOrder(Unsorted)

(***************************************************************************)
(* C9  Degenerate aggregation fallback.                                    *)
(***************************************************************************)
\* C9 as stated: whenever totalWeight is zero after the aggregation loop, the
\* case of no selected neighbour included, the call returns the nearest
\* neighbour's output and does not fail.
C9_FallbackAlwaysDefined ==
    (ret \in {"fallback", "weighted", "panic"} /\ FEq(totalWeight, FZero)) =>
        /\ ret = "fallback"
        /\ Len(neighbors) > 0
        /\ reimbursement = neighbors[1].Output

\* C9 amended: whenever totalWeight is zero after the aggregation loop and the
\* training set is not empty, the call returns the output of the first sorted
\* neighbour and does not fail; on an empty training set it panics with an
\* index out of range and nothing is printed.
C9_FallbackOnNonEmpty ==
    (ret \in {"fallback", "weighted", "panic"} /\ FEq(totalWeight, FZero)) =>
        IF Len(training) > 0
        THEN ret = "fallback" /\ reimbursement = neighbors[1].Output
        ELSE ret = "panic" /\ stdout = <<>> /\ exitCode = 2

\* C9 witness: the fallback return taken on a non-empty training set.
C9_Witness ==
    /\ ret = "fallback"
    /\ Len(training) > 0
    /\ FEq(totalWeight, FZero)

(***************************************************************************)
(* C10  Exact-match tie-break.                                             *)
(***************************************************************************)
\* C10: when several records match the query, the call returns the output of
\* the matching record earliest in the training set, and the records after it
\* are never read: the scan stops at it and no neighbour is computed.
C10_FirstMatchWins ==
    (Returned /\ Cardinality(Matching) >= 2) =>
        /\ ret = "exact"
        /\ reimbursement = training[Least(Matching)].out
        /\ examined = [j \in 1..Least(Matching) |-> j - 1]
        /\ neighbors = <<>>

\* C10 witness: a return on a query matched by records of different outputs,
\* the first of them not at the head of the training set.
C10_Witness ==
    /\ Returned
    /\ \E x \in Matching, y \in Matching : training[x].out # training[y].out
    /\ Least(Matching) > 1

=============================================================================
